---- MODULE Spec2Model ----
(***************************************************************************)
(* Model of utils_emacs.py: the emacsclient bridge (ask_emacs), guarded by *)
(* a process-wide Lock, and the two parsers built on it (select_node and   *)
(* get_or_node_details).                                                   *)
(*                                                                         *)
(* Text is a sequence of code points, a file's content a sequence of       *)
(* bytes; both are sequences of naturals.                                  *)
(***************************************************************************)
EXTENDS Integers, Sequences, FiniteSets, TLC

\* ------------------------------------------------------------------ bounds

\* Number of request threads calling into the bridge concurrently.
MaxThreads == 2

\* Largest number of lines in an editor output drawn for the parsers.
MaxLines == 4

\* ------------------------------------------------------------- characters

\* The printable ASCII characters from code 32 (space) to 95 (_), in code order.
Printable ==
  <<" ", "!", "\"", "#", "$", "%", "&", "'", "(", ")", "*", "+", ",", "-",
    ".", "/", "0", "1", "2", "3", "4", "5", "6", "7", "8", "9", ":", ";",
    "<", "=", ">", "?", "@", "A", "B", "C", "D", "E", "F", "G", "H", "I",
    "J", "K", "L", "M", "N", "O", "P", "Q", "R", "S", "T", "U", "V", "W",
    "X", "Y", "Z", "[", "\\", "]", "^", "_">>

\* The lower-case letters, code 97 (a) to 122 (z), in code order.
Lower ==
  <<"a", "b", "c", "d", "e", "f", "g", "h", "i", "j", "k", "l", "m", "n",
    "o", "p", "q", "r", "s", "t", "u", "v", "w", "x", "y", "z">>

\* Code point of a one-character literal of the source.
Ord(c) ==
  IF c = "\n" THEN 10
  ELSE IF \E i \in 1..Len(Lower) : Lower[i] = c
  THEN 96 + (CHOOSE i \in 1..Len(Lower) : Lower[i] = c)
  ELSE 31 + (CHOOSE i \in 1..Len(Printable) : Printable[i] = c)

\* A string literal of the source, as its sequence of code points.
Str(cs) == [k \in 1..Len(cs) |-> Ord(cs[k])]

\* The separator of output.split("\n") and "\n".join(...).
NL == Ord("\n")

\* The separator of path components.
Slash == Ord("/")

\* The "." path component.
Dot == Ord(".")

\* ---------------------------------------------------------------- strings

\* s[i:], with i a 0-based index.
From(s, i) == SubSeq(s, i + 1, Len(s))

\* s.startswith(p).
StartsWith(s, p) == Len(s) >= Len(p) /\ SubSeq(s, 1, Len(p)) = p

\* s.find(c, i): 0-based index of the first c in s at or after 0-based
\* index i, or -1.
Find(s, c, i) ==
  LET at == {k \in (i + 1)..Len(s) : s[k] = c} IN
  IF at = {} THEN -1 ELSE (CHOOSE k \in at : \A j \in at : k <= j) - 1

\* s.split(sep): the pieces between separators; never an empty list.
RECURSIVE Split(_, _)
Split(s, sep) ==
  LET k == Find(s, sep, 0) IN
  IF k = -1 THEN <<s>>
  ELSE <<SubSeq(s, 1, k)>> \o Split(From(s, k + 1), sep)

\* sep.join(parts).
RECURSIVE Join(_, _)
Join(parts, sep) ==
  IF parts = <<>> THEN <<>>
  ELSE IF Len(parts) = 1 THEN parts[1]
  ELSE parts[1] \o <<sep>> \o Join(Tail(parts), sep)

\* The pattern prefix + "(.+?)": the group is the first character only.
re_match_lazy(prefix, s) ==
  IF ~StartsWith(s, prefix) THEN [matched |-> FALSE, group1 |-> <<>>]
  ELSE LET rest == From(s, Len(prefix)) IN
       IF rest = <<>> \/ rest[1] = NL THEN [matched |-> FALSE, group1 |-> <<>>]
       ELSE [matched |-> TRUE, group1 |-> <<rest[1]>>]

\* re.match(prefix + "(.+)", s): anchored at the start of s, the group is the
\* longest non-empty run of characters other than newline after the prefix.
\* The result is the match object (matched, group1).
re_match(prefix, s) ==
  IF ~StartsWith(s, prefix) THEN [matched |-> FALSE, group1 |-> <<>>]
  ELSE LET rest == From(s, Len(prefix))
           k == Find(rest, NL, 0)
           g == IF k = -1 THEN rest ELSE SubSeq(rest, 1, k)
       IN [matched |-> g # <<>>, group1 |-> g]

\* ------------------------------------------------------------------ UTF-8

\* A continuation byte 10xxxxxx at 1-based position k of b.
Cont(b, k) == k <= Len(b) /\ b[k] >= 128 /\ b[k] <= 191

\* Payload of a continuation byte.
Low6(x) == x - 128

\* Length of the well-formed UTF-8 sequence at the start of b, 0 when it is
\* ill-formed (a stray continuation byte, an overlong form, a surrogate, a
\* truncated sequence, or a lead byte above F4).
SequenceLength(b) ==
  LET b1 == b[1] IN
  IF b1 <= 127 THEN 1
  ELSE IF b1 >= 194 /\ b1 <= 223 /\ Cont(b, 2) THEN 2
  ELSE IF b1 >= 224 /\ b1 <= 239 /\ Cont(b, 2) /\ Cont(b, 3)
          /\ (b1 = 224 => b[2] >= 160) /\ (b1 = 237 => b[2] <= 159)
       THEN 3
  ELSE IF b1 >= 240 /\ b1 <= 244 /\ Cont(b, 2) /\ Cont(b, 3) /\ Cont(b, 4)
          /\ (b1 = 240 => b[2] >= 144) /\ (b1 = 244 => b[2] <= 143)
       THEN 4
  ELSE 0

\* The code point encoded by the first n bytes of b.
CodePoint(b, n) ==
  CASE n = 1 -> b[1]
    [] n = 2 -> (b[1] - 192) * 64 + Low6(b[2])
    [] n = 3 -> (b[1] - 224) * 4096 + Low6(b[2]) * 64 + Low6(b[3])
    [] n = 4 -> (b[1] - 240) * 262144 + Low6(b[2]) * 4096 + Low6(b[3]) * 64 + Low6(b[4])

\* Decoding of the bytes b that follow the already decoded text acc.
RECURSIVE DecodeFrom(_, _)
DecodeFrom(b, acc) ==
  IF b = <<>> THEN [ok |-> TRUE, text |-> acc]
  ELSE IF SequenceLength(b) = 0 THEN [ok |-> FALSE, text |-> <<>>]
  ELSE DecodeFrom(From(b, SequenceLength(b)), Append(acc, CodePoint(b, SequenceLength(b))))

\* bytes.decode("utf-8") with strict errors: the decoded code points, or the
\* UnicodeDecodeError raised at the first ill-formed sequence (ok = FALSE).
decode_utf8(b) == DecodeFrom(b, <<>>)

\* ------------------------------------------------------------------ paths

\* The elements of a sequence of strings that are neither "" nor ".".
RECURSIVE Components(_)
Components(xs) ==
  IF xs = <<>> THEN <<>>
  ELSE IF Head(xs) = <<>> \/ Head(xs) = <<Dot>> THEN Components(Tail(xs))
  ELSE <<Head(xs)>> \o Components(Tail(xs))

\* Number of leading "/" of s.
RECURSIVE LeadingSlashes(_)
LeadingSlashes(s) ==
  IF s # <<>> /\ Head(s) = Slash THEN 1 + LeadingSlashes(Tail(s)) ELSE 0

\* pathlib.Path(fn) on POSIX: the root ("", "/" or, for exactly two leading
\* slashes, "//") and the components, with empty and "." components dropped.
Path(fn) ==
  LET k == LeadingSlashes(fn) IN
  [root  |-> IF k = 0 THEN <<>> ELSE IF k = 2 THEN <<Slash, Slash>> ELSE <<Slash>>,
   parts |-> Components(Split(From(fn, k), Slash))]

\* Path.parent: the path without its last component; a path with no
\* component (the root, or ".") is its own parent.
parent(p) ==
  IF p.parts = <<>> THEN p
  ELSE [root |-> p.root, parts |-> SubSeq(p.parts, 1, Len(p.parts) - 1)]

\* ---------------------------------------------------------------- outcomes

\* A call that returned value v.
Returned(v) == [kind |-> "return", value |-> v]

\* A call that raised exception e; status and detail are meaningful for
\* HTTPException only.
Raised(e, status, detail) ==
  [kind |-> "raise", exc |-> e, status_code |-> status, detail |-> detail]

\* HTTPException(status_code=status, detail=detail).
HTTPException(status, detail) == Raised("HTTPException", status, detail)

\* lines[i] with i >= len(lines).
IndexError == Raised("IndexError", 0, <<>>)

\* The error subprocess.run raises when emacsclient cannot be started.
OSError == Raised("OSError", 0, <<>>)

\* The error bytes.decode raises on ill-formed UTF-8.
UnicodeDecodeError == Raised("UnicodeDecodeError", 0, <<>>)

\* No outcome yet, and no pending exception.
Nothing == [kind |-> "none"]

\* Python's None.
None == [py_none |-> TRUE]

\* ---------------------------------------------------------------- parsers

\* The literal "id:" of the pattern "id:(.+)".
PrefixId == Str(<<"i", "d", ":">>)

\* The literal "title:" of the pattern "title:(.+)".
PrefixTitle == Str(<<"t", "i", "t", "l", "e", ":">>)

\* The literal "file:" of the pattern "file:(.+)".
PrefixFile == Str(<<"f", "i", "l", "e", ":">>)

\* detail="No node selected".
NoNodeSelected ==
  Str(<<"N", "o", " ", "n", "o", "d", "e", " ", "s", "e", "l", "e", "c", "t", "e", "d">>)

\* detail="No node found".
NoNodeFound ==
  Str(<<"N", "o", " ", "n", "o", "d", "e", " ", "f", "o", "u", "n", "d">>)

\* The text logging.error is given before the raw output.
UnableToParse ==
  Str(<<"U", "n", "a", "b", "l", "e", " ", "t", "o", " ", "p", "a", "r", "s", "e", " ",
        "o", "u", "t", "p", "u", "t", " ", "f", "r", "o", "m", " ",
        "e", "m", "a", "c", "s", "c", "l", "i", "e", "n", "t", ":", " ">>)

\* The collaborator utils.rewrite_links(html, base): an uninterpreted term
\* that keeps both arguments.
rewrite_links(html, base) == [fn |-> "rewrite_links", html |-> html, base |-> base]

\* select_node after ask_emacs has returned output: the three nested matches
\* on lines[0], lines[1], lines[2]; an index past the end of lines raises
\* IndexError before the match is attempted.
select_node_parse(output) ==
  LET lines == Split(output, NL)
      mo_i == re_match(PrefixId, lines[1])
  IN
  IF ~mo_i.matched THEN HTTPException(404, NoNodeSelected)
  ELSE IF Len(lines) < 2 THEN IndexError
  ELSE
    LET mo_t == re_match(PrefixTitle, lines[2]) IN
    IF ~mo_t.matched THEN HTTPException(404, NoNodeSelected)
    ELSE IF Len(lines) < 3 THEN IndexError
    ELSE
      LET mo_f == re_match(PrefixFile, lines[3]) IN
      IF ~mo_f.matched THEN HTTPException(404, NoNodeSelected)
      ELSE Returned([id |-> mo_i.group1, title |-> mo_t.group1, file |-> mo_f.group1])

\* html = lines[2]: only the first line of the body.
html_of_first_line(lines) == IF Len(lines) >= 3 THEN lines[3] ELSE <<>>

\* html = "\n".join(lines[2:]).
html_of(lines) == Join(SubSeq(lines, 3, Len(lines)), NL)

\* rewrite_links(html, Path(fn)): the file instead of its directory.
base_of_file(fn) == Path(fn)

\* The second argument get_or_node_details gives rewrite_links: Path(fn).parent.
base_of(fn) == parent(Path(fn))

\* get_or_node_details after ask_emacs has returned output: the outcome, the
\* entries given to logging.error and the calls made to rewrite_links.  The
\* else branch belongs to the title match; a failed file match falls off the
\* end of the function, which returns None.
get_or_node_details_parse(output) ==
  LET lines == Split(output, NL)
      mo_t == re_match(PrefixTitle, lines[1])
  IN
  IF ~mo_t.matched
  THEN [outcome |-> HTTPException(404, NoNodeFound),
        logged  |-> <<[level |-> "error", msg |-> UnableToParse \o output]>>,
        calls   |-> <<>>]
  ELSE IF Len(lines) < 2
  THEN [outcome |-> IndexError, logged |-> <<>>, calls |-> <<>>]
  ELSE
    LET mo_f == re_match(PrefixFile, lines[2]) IN
    IF ~mo_f.matched
    THEN [outcome |-> Returned(None), logged |-> <<>>, calls |-> <<>>]
    ELSE
      LET fn == mo_f.group1
          html == html_of(lines)
      IN [outcome |-> Returned([title |-> mo_t.group1,
                                file  |-> fn,
                                html  |-> rewrite_links(html, base_of(fn))]),
          logged  |-> <<>>,
          calls   |-> <<[html |-> html, base |-> base_of(fn)]>>]

\* ------------------------------------------------------------------ state

VARIABLES
  mutex,          \* the module-level Lock: 0 when free, else the thread holding it
  files,          \* the temp directory: name -> whether the file exists, and its bytes
  pc,             \* where each thread is in its request
  fn,             \* the handler each thread runs: select_node or get_or_node_details
  tmp,            \* tmp.name of the thread's NamedTemporaryFile (0: none)
  cmd,            \* the emacsclient command line the thread built
  ret,            \* the CompletedProcess of the thread's subprocess.run
  output,         \* how the thread's ask_emacs call ends: a returned string or an exception
  result,         \* how the thread's handler ends
  written,        \* the bytes the thread's own subprocess wrote for it
  logged,         \* the entries the thread's handler gave to logging.error
  rewrite_calls,  \* the calls the thread's handler made to rewrite_links
  invocations     \* the number of times the thread's handler started subprocess.run

vars ==
  <<mutex, files, pc, fn, tmp, cmd, ret, output, result, written, logged,
    rewrite_calls, invocations>>

Threads == 1..MaxThreads

\* The names NamedTemporaryFile can choose from.
TmpNames == 1..MaxThreads

Handlers == {"select_node", "get_or_node_details"}

\* The node ids get_or_node_details is called with.
NodeIds == {"n1"}

NoFile == [exists |-> FALSE, data |-> <<>>]

NoCmd == [argv |-> <<>>, write_region |-> [elisp |-> "", node_id |-> "", file |-> 0]]

NoRet == [stderr |-> <<>>, returncode |-> 0]

\* ------------------------------------------------------------ environment

\* Editor answers written to the target file: a node selection, and bytes
\* that are not UTF-8.
SelectAnswer ==
  Str(<<"i", "d", ":", "a", "\n", "t", "i", "t", "l", "e", ":", "T", "\n",
        "f", "i", "l", "e", ":", "/", "x", "/", "y">>)

IllFormed == <<105, 100, 58, 255>>

Contents == {SelectAnswer, IllFormed}

\* What emacsclient prints on stderr when it prints anything.
ErrText == Str(<<"E", "r", "r">>)

\* One run of emacsclient: whether the editor wrote the target file and with
\* what, the captured stderr and the exit code.
Run(w, d, e, c) == [writes |-> w, data |-> d, stderr |-> e, returncode |-> c]

\* The runs the threads of Spec meet: a clean run writing each answer; an
\* answer written with a non-zero exit code and empty stderr; an answer
\* written with text on stderr and exit code zero; a failed run that writes
\* nothing.
Runs ==
  {Run(TRUE, d, <<>>, 0) : d \in Contents}
    \cup {Run(TRUE, SelectAnswer, <<>>, 1),
          Run(TRUE, SelectAnswer, ErrText, 0),
          Run(FALSE, <<>>, ErrText, 1)}

\* ------------------------------------------------------------------- Init

Init ==
  /\ mutex = 0
  /\ files = [n \in TmpNames |-> NoFile]
  /\ pc = [t \in Threads |-> "idle"]
  /\ fn = [t \in Threads |-> "none"]
  /\ tmp = [t \in Threads |-> 0]
  /\ cmd = [t \in Threads |-> NoCmd]
  /\ ret = [t \in Threads |-> NoRet]
  /\ output = [t \in Threads |-> Nothing]
  /\ result = [t \in Threads |-> Nothing]
  /\ written = [t \in Threads |-> <<>>]
  /\ logged = [t \in Threads |-> <<>>]
  /\ rewrite_calls = [t \in Threads |-> <<>>]
  /\ invocations = [t \in Threads |-> 0]

\* ---------------------------------------------------------------- helpers

\* A NamedTemporaryFile that may hand out a name already in use.
FreshNames_AnyName(fs) == TmpNames

\* tempfile.NamedTemporaryFile(): the names it may return, those of no
\* existing file (the file is created with O_EXCL).
FreshNames(fs) == {n \in TmpNames : ~fs[n].exists}

\* The argument list ask_emacs builds.
ask_emacs_cmd(elisp, node_id, create_frame, name) ==
  [argv |-> <<"emacsclient">>
              \o (IF create_frame THEN <<"-c", "--no-wait">> ELSE <<>>)
              \o <<"--eval">>,
   write_region |-> [elisp |-> elisp, node_id |-> node_id, file |-> name]]

\* A with block that does not wait for the lock.
CanAcquire_NoWait(holder) == TRUE

\* Lock.__enter__: whether the lock, held by holder (0: nobody), can be taken.
CanAcquire(holder) == holder = 0

\* acquire() and release() around subprocess.run without try/finally: an
\* exception skips the release.
MutexExit_NoFinally(t, raised) == IF raised THEN t ELSE 0

\* A with mutex block that extends over the stderr check and the read: the
\* lock is still held when subprocess.run has returned.
MutexExit_AfterRead(t, raised) == IF raised THEN 0 ELSE t

\* Lock.__exit__ at the end of the with block, reached by thread t either
\* normally or with the exception subprocess.run raised: the holder afterwards.
MutexExit(t, raised) == 0

\* A failure test on the exit code instead of stderr.
StderrFailed_ExitCode(r) == r.returncode # 0

\* if ret.stderr:
StderrFailed(r) == r.stderr # <<>>

\* A temporary file unlinked on the normal path only.
CloseTmp_OnSuccessOnly(file, raised) == IF raised THEN file ELSE NoFile

\* NamedTemporaryFile.__exit__: the entry of the closed file afterwards,
\* whether the block ended normally or by an exception.
CloseTmp(file, raised) == NoFile

\* ---------------------------------------------------------------- actions

\* A request enters handler f, which calls ask_emacs: the command prefix is
\* built, the temporary file is created and the --eval argument is added.
Call(t, f, id) ==
  /\ pc[t] = "idle"
  /\ \E n \in FreshNames(files) :
       /\ tmp' = [tmp EXCEPT ![t] = n]
       /\ files' = [files EXCEPT ![n] = [exists |-> TRUE, data |-> <<>>]]
       /\ cmd' = [cmd EXCEPT ![t] =
                    IF f = "select_node"
                    THEN ask_emacs_cmd("ELISP_SN", "", TRUE, n)
                    ELSE ask_emacs_cmd("ELISP_GND", id, FALSE, n)]
  /\ fn' = [fn EXCEPT ![t] = f]
  /\ pc' = [pc EXCEPT ![t] = "acquire"]
  /\ UNCHANGED <<mutex, ret, output, result, written, logged, rewrite_calls, invocations>>

\* with mutex: the thread blocks until it can take the lock.
Acquire(t) ==
  /\ pc[t] = "acquire"
  /\ CanAcquire(mutex)
  /\ mutex' = t
  /\ pc' = [pc EXCEPT ![t] = "run"]
  /\ UNCHANGED <<files, fn, tmp, cmd, ret, output, result, written, logged,
                 rewrite_calls, invocations>>

\* subprocess.run starts emacsclient.
Launch(t) ==
  /\ pc[t] = "run"
  /\ invocations' = [invocations EXCEPT ![t] = @ + 1]
  /\ pc' = [pc EXCEPT ![t] = "inflight"]
  /\ UNCHANGED <<mutex, files, fn, tmp, cmd, ret, output, result, written, logged,
                 rewrite_calls>>

\* subprocess.run cannot start emacsclient and raises; the exception leaves
\* the with mutex block.
LaunchFail(t) ==
  /\ pc[t] = "run"
  /\ invocations' = [invocations EXCEPT ![t] = @ + 1]
  /\ output' = [output EXCEPT ![t] = OSError]
  /\ mutex' = MutexExit(t, TRUE)
  /\ pc' = [pc EXCEPT ![t] = "close"]
  /\ UNCHANGED <<files, fn, tmp, cmd, ret, result, written, logged, rewrite_calls>>

\* emacsclient completes with one of runs: the editor has (or has not)
\* written the file named in the --eval argument, subprocess.run returns and
\* the with mutex block is left.
Complete(t, runs) ==
  /\ pc[t] = "inflight"
  /\ \E r \in runs :
       /\ LET target == cmd[t].write_region.file IN
          files' = IF r.writes
                   THEN [files EXCEPT ![target] = [exists |-> TRUE, data |-> r.data]]
                   ELSE files
       /\ written' = [written EXCEPT ![t] = r.data]
       /\ ret' = [ret EXCEPT ![t] = [stderr |-> r.stderr, returncode |-> r.returncode]]
  /\ mutex' = MutexExit(t, FALSE)
  /\ pc' = [pc EXCEPT ![t] = "read"]
  /\ UNCHANGED <<fn, tmp, cmd, output, result, logged, rewrite_calls, invocations>>

\* if ret.stderr: raise HTTPException(404, ret.stderr); otherwise
\* return tmp.read().decode("utf-8").
ReadResult(t) ==
  /\ pc[t] = "read"
  /\ output' = [output EXCEPT ![t] =
                  IF StderrFailed(ret[t]) THEN HTTPException(404, ret[t].stderr)
                  ELSE LET d == decode_utf8(files[tmp[t]].data) IN
                       IF d.ok THEN Returned(d.text) ELSE UnicodeDecodeError]
  /\ pc' = [pc EXCEPT ![t] = "close"]
  /\ UNCHANGED <<mutex, files, fn, tmp, cmd, ret, result, written, logged,
                 rewrite_calls, invocations>>

\* The with NamedTemporaryFile block is left and ask_emacs ends; the handler
\* continues: an exception of ask_emacs passes through it, a returned string
\* is parsed, and the request is answered.
Close(t) ==
  /\ pc[t] = "close"
  /\ files' = [files EXCEPT ![tmp[t]] = CloseTmp(@, output[t].kind = "raise")]
  /\ IF output[t].kind = "raise"
     THEN /\ result' = [result EXCEPT ![t] = output[t]]
          /\ UNCHANGED <<logged, rewrite_calls>>
     ELSE IF fn[t] = "select_node"
     THEN /\ result' = [result EXCEPT ![t] = select_node_parse(output[t].value)]
          /\ UNCHANGED <<logged, rewrite_calls>>
     ELSE LET p == get_or_node_details_parse(output[t].value) IN
          /\ result' = [result EXCEPT ![t] = p.outcome]
          /\ logged' = [logged EXCEPT ![t] = p.logged]
          /\ rewrite_calls' = [rewrite_calls EXCEPT ![t] = p.calls]
  /\ pc' = [pc EXCEPT ![t] = "done"]
  /\ UNCHANGED <<mutex, fn, tmp, cmd, ret, output, written, invocations>>

\* The request is over; the thread is free for the next one.
Reset(t) ==
  /\ pc[t] = "done"
  /\ pc' = [pc EXCEPT ![t] = "idle"]
  /\ fn' = [fn EXCEPT ![t] = "none"]
  /\ tmp' = [tmp EXCEPT ![t] = 0]
  /\ cmd' = [cmd EXCEPT ![t] = NoCmd]
  /\ ret' = [ret EXCEPT ![t] = NoRet]
  /\ output' = [output EXCEPT ![t] = Nothing]
  /\ result' = [result EXCEPT ![t] = Nothing]
  /\ written' = [written EXCEPT ![t] = <<>>]
  /\ logged' = [logged EXCEPT ![t] = <<>>]
  /\ rewrite_calls' = [rewrite_calls EXCEPT ![t] = <<>>]
  /\ invocations' = [invocations EXCEPT ![t] = 0]
  /\ UNCHANGED <<mutex, files>>

\* ----------------------------------------------------------- specification

Next ==
  \E t \in Threads :
    \/ \E f \in Handlers, id \in NodeIds : Call(t, f, id)
    \/ Acquire(t)
    \/ Launch(t)
    \/ LaunchFail(t)
    \/ Complete(t, Runs)
    \/ ReadResult(t)
    \/ Close(t)
    \/ Reset(t)

Spec == Init /\ [][Next]_vars

\* ------------------------------------------------- specification of parsing

\* Lines an editor answer is made of: well-formed headers (an id holding a
\* colon, a title holding a space, an absolute and a bare file name), a
\* header with an empty value, a header that does not start the line, an
\* empty line and a line of HTML.
RichLines ==
  { Str(<<"i", "d", ":", "a", ":", "b">>),
    Str(<<"t", "i", "t", "l", "e", ":", "T", " ", "t">>),
    Str(<<"f", "i", "l", "e", ":", "/", "x", "/", "y", ".", "o">>),
    Str(<<"f", "i", "l", "e", ":", "y">>),
    Str(<<"t", "i", "t", "l", "e", ":">>),
    Str(<<" ", "i", "d", ":", "a">>),
    Str(<<"<", "p", ">">>),
    <<>> }

\* An answer whose id holds a two-byte character (e with acute accent).
Accented ==
  <<105, 100, 58, 195, 169>> \o <<NL>> \o Str(<<"t", "i", "t", "l", "e", ":", "T">>)
    \o <<NL>> \o Str(<<"f", "i", "l", "e", ":", "/">>)

\* Every answer of one to MaxLines lines, each drawn from RichLines.
RichContents ==
  {Join(ls, NL) : ls \in UNION {[1..n -> RichLines] : n \in 1..MaxLines}}
    \cup {Accented}

\* The runs of ParseSpec: those of Spec, and a clean run for every answer.
ParseRuns == Runs \cup {Run(TRUE, d, <<>>, 0) : d \in RichContents}

\* One request at a time, by thread 1, over all of ParseRuns.
ParseNext ==
  \E t \in {1} :
    \/ \E f \in Handlers, id \in NodeIds : Call(t, f, id)
    \/ Acquire(t)
    \/ Launch(t)
    \/ LaunchFail(t)
    \/ Complete(t, ParseRuns)
    \/ ReadResult(t)
    \/ Close(t)
    \/ Reset(t)

ParseSpec == Init /\ [][ParseNext]_vars

\* ------------------------------------------------------- the bridge: claims

\* The threads whose emacsclient subprocess has been started and has not
\* completed.
InFlight == {t \in Threads : pc[t] = "inflight"}

\* The threads inside ask_emacs: their temporary file is open.
InCall == {t \in Threads : pc[t] \in {"acquire", "run", "inflight", "read", "close"}}

\* The threads whose subprocess.run has returned a CompletedProcess and whose
\* ask_emacs call has determined its outcome.
Ran(t) ==
  /\ pc[t] \in {"close", "done"}
  /\ ~(output[t].kind = "raise" /\ output[t].exc = "OSError")

\* C1: at most one emacsclient subprocess is in flight at any instant, and a
\* thread that is about to start its subprocess, or whose subprocess is in
\* flight, holds the mutex.
C1_OneSubprocessInFlight ==
  /\ Cardinality(InFlight) <= 1
  /\ \A t \in Threads : pc[t] \in {"run", "inflight"} => mutex = t

\* C1 witness: one subprocess is in flight while another caller waits for
\* the lock.
C1_Witness ==
  \E t, u \in Threads : pc[t] = "inflight" /\ pc[u] = "acquire"

\* C2: the mutex is only ever held by a thread between taking the lock and
\* the end of its subprocess.run; a call that has left that region in any
\* way (empty stderr, non-empty stderr, launch error), or has ended, does not
\* hold it.
C2_MutexReleasedOnEveryExit ==
  \A t \in Threads :
    pc[t] \in {"read", "close", "done", "idle"} => mutex # t

\* C2 witness: a call has ended by the launch error, another has ended with
\* text on stderr or is past its subprocess, and the lock is free again.
C2_Witness ==
  \E t, u \in Threads :
    /\ pc[t] = "done" /\ result[t] = OSError
    /\ pc[u] \in {"close", "done"} /\ ret[u].stderr # <<>>
    /\ mutex = 0

\* C3: a call whose subprocess produced text on stderr ends with
\* HTTPException(404, that text) and returns nothing; a call whose subprocess
\* produced no stderr is not failed by ask_emacs, whatever the exit code: it
\* returns the decoded file (or fails in the decoding of the file).
C3_StderrIsTheFailureSignal ==
  \A t \in Threads :
    Ran(t) =>
      IF ret[t].stderr # <<>>
      THEN output[t] = HTTPException(404, ret[t].stderr)
      ELSE output[t].kind = "return" \/ output[t] = UnicodeDecodeError

\* C3 witness: one call failed with the stderr text although its file was
\* written and the exit code was 0; another returned although the exit code
\* was 1.
C3_Witness ==
  \E t, u \in Threads :
    /\ Ran(t) /\ ret[t].stderr = ErrText /\ ret[t].returncode = 0
    /\ written[t] = SelectAnswer /\ output[t] = HTTPException(404, ErrText)
    /\ Ran(u) /\ ret[u].stderr = <<>> /\ ret[u].returncode = 1
    /\ output[u].kind = "return"

\* C4: a call that returns, returns the decoding of the bytes its own
\* subprocess wrote; and no two calls in progress have the same temporary
\* file name.
C4_ReturnsOwnFile ==
  /\ \A t \in Threads :
       (pc[t] \in {"close", "done"} /\ output[t].kind = "return") =>
         /\ decode_utf8(written[t]).ok
         /\ output[t].value = decode_utf8(written[t]).text
  /\ \A t, u \in InCall : t # u => tmp[t] # tmp[u]

\* C4 witness: a call has returned its answer while another call, whose
\* subprocess wrote something else, is between its subprocess and its read.
C4_Witness ==
  \E t, u \in Threads :
    /\ pc[t] = "close" /\ output[t] = Returned(SelectAnswer)
    /\ pc[u] = "read" /\ written[u] = IllFormed

\* C5: a temporary file exists exactly while the call that created it is in
\* progress; when no call is in progress no temporary file is left.
C5_TempFileRemoved ==
  \A n \in TmpNames :
    files[n].exists <=> \E t \in InCall : tmp[t] = n

\* C5 witness: calls have ended by an exception and by a return, and no
\* temporary file is left.
C5_Witness ==
  /\ \E t \in Threads : pc[t] = "done" /\ result[t].kind = "raise"
  /\ \E t \in Threads : pc[t] = "done" /\ output[t].kind = "return"
  /\ InCall = {}
  /\ \A n \in TmpNames : ~files[n].exists

\* C10 as stated: a call whose subprocess has completed and which has not
\* yet read its result still holds the mutex, and no other subprocess is in
\* flight.
C10_HeldUntilRead ==
  \A t \in Threads :
    pc[t] = "read" => (mutex = t /\ InFlight = {})

\* C10 amended: the lock is taken before the subprocess starts and given up
\* in the step in which subprocess.run ends (by return or by exception); the
\* stderr check and the read of the file are made without the lock.
C10_HeldForSubprocessOnly ==
  [][\A t \in Threads :
       /\ (pc[t] # "run" /\ pc'[t] = "run") => mutex' = t
       /\ (pc[t] \in {"run", "inflight"} /\ pc'[t] \in {"read", "close"})
            => (mutex = t /\ mutex' # t)
       /\ (pc[t] = "read" /\ pc'[t] # "read") => mutex # t]_vars

\* C10 witness: one call is between its subprocess and its read while the
\* subprocess of another call is in flight.
C10_Witness ==
  \E t, u \in Threads : pc[t] = "read" /\ pc[u] = "inflight"

\* ------------------------------------------------------ the parsers: claims

\* Number of newlines in s.
CountNL(s) == Cardinality({i \in 1..Len(s) : s[i] = NL})

\* 1-based position of the k-th newline of s (k >= 1, k <= CountNL(s)).
NLPos(s, k) ==
  CHOOSE i \in 1..Len(s) :
    s[i] = NL /\ Cardinality({j \in 1..i : s[j] = NL}) = k

\* Whether s has a line of 0-based index k.
HasLine(s, k) == CountNL(s) >= k

\* The line of 0-based index k of s: the text between the k-th newline (or
\* the start) and the next newline (or the end).
Line(s, k) ==
  SubSeq(s,
         IF k = 0 THEN 1 ELSE NLPos(s, k) + 1,
         IF CountNL(s) > k THEN NLPos(s, k + 1) - 1 ELSE Len(s))

\* Whether s has line k and that line is prefix followed by a non-empty value.
Header(s, k, prefix) ==
  /\ HasLine(s, k)
  /\ Len(Line(s, k)) > Len(prefix)
  /\ SubSeq(Line(s, k), 1, Len(prefix)) = prefix

\* The value of a header line: the whole remainder of the line.
Value(s, k, prefix) == SubSeq(Line(s, k), Len(prefix) + 1, Len(Line(s, k)))

\* The text of s after its second newline, empty when there is none.
AfterSecondNewline(s) ==
  IF CountNL(s) >= 2 THEN SubSeq(s, NLPos(s, 2) + 1, Len(s)) ELSE <<>>

\* Lines 0, 1, 2 of s are id:<I>, title:<T>, file:<F>.
ThreeHeaders(s) ==
  Header(s, 0, PrefixId) /\ Header(s, 1, PrefixTitle) /\ Header(s, 2, PrefixFile)

\* Lines 0, 1 of s are title:<T>, file:<F>.
TwoHeaders(s) == Header(s, 0, PrefixTitle) /\ Header(s, 1, PrefixFile)

\* Thread t has answered a request to handler f whose ask_emacs returned.
Parsed(t, f) == pc[t] = "done" /\ fn[t] = f /\ output[t].kind = "return"

\* C6: whenever the editor output does not have the three headers (a line
\* fails to match or is missing), select_node fails with
\* HTTPException(404, "No node selected").
C6_MalformedSelectionIsNotFound ==
  \A t \in Threads :
    (Parsed(t, "select_node") /\ ~ThreeHeaders(output[t].value)) =>
      result[t] = HTTPException(404, NoNodeSelected)

\* C7: whenever the editor output does not have the two headers,
\* get_or_node_details fails with HTTPException(404, "No node found") after
\* logging one error entry that holds the raw output.
C7_MalformedDetailsIsLoggedError ==
  \A t \in Threads :
    (Parsed(t, "get_or_node_details") /\ ~TwoHeaders(output[t].value)) =>
      /\ result[t] = HTTPException(404, NoNodeFound)
      /\ logged[t] = <<[level |-> "error", msg |-> UnableToParse \o output[t].value]>>

C9_SelectionOfWellFormedOutput ==
  \A t \in Threads :
    (Parsed(t, "select_node") /\ ThreeHeaders(output[t].value)) =>
      LET o == output[t].value IN
      /\ result[t] = Returned([id    |-> Value(o, 0, PrefixId),
                               title |-> Value(o, 1, PrefixTitle),
                               file  |-> Value(o, 2, PrefixFile)])
      /\ invocations[t] = 1
      /\ cmd[t].argv = <<"emacsclient", "-c", "--no-wait", "--eval">>
      /\ cmd[t].write_region.elisp = "ELISP_SN"

\* C9 witness: a selection was returned whose id holds a colon and whose
\* output has a fourth line.
C9_Witness ==
  \E t \in Threads :
    /\ Parsed(t, "select_node") /\ ThreeHeaders(output[t].value)
    /\ CountNL(output[t].value) >= 3
    /\ result[t].kind = "return"
    /\ result[t].value.id = Str(<<"a", ":", "b">>)

====
